---- MODULE Spec2Model ----
(***************************************************************************)
(* Model of the StatsD client of src/index.js: the lazily created UDP      *)
(* socket, the `sending` counter, the count/gauge/timer operations, the    *)
(* send completion callbacks and close() with its 10 second timer, and the *)
(* StatsDProxy objects that space() returns.                               *)
(*                                                                         *)
(* One action is one run-to-completion piece of JavaScript: a call of a    *)
(* public method up to its first suspension, a send callback together with *)
(* the promise reactions it triggers, or the firing of a setTimeout.       *)
(***************************************************************************)
EXTENDS Integers, Sequences, FiniteSets

\* ------------------------------------------------------------------ bounds
MaxOps == 3          \* count/gauge/timer calls issued in one behaviour
MaxTimers == 2       \* setTimeout calls made by close() in one behaviour
MaxDepth == 2        \* space() calls chained to make one proxy

\* --------------------------------------------------------------- constants
DefaultPort == 8125

Null == 0            \* this._client == null; sockets are numbered from 1
This == "StatsD"     \* the client object, as the value of a promise

Hosts == {"127.0.0.1"}
Ports == {DefaultPort, 9125}
Keys == {"requests", "cpu.load"}

\* JavaScript values passed as `value`
Undefined == [t |-> "undefined", n |-> 0]
Num(n) == [t |-> "number", n |-> n]
Values == {Num(42), Num(0 - 3)}
\* the arguments that follow `key` in a call: none, or one value
ArgLists == {<<>>} \cup {<<v>> : v \in Values}

TYPES == [COUNTER |-> "c", GAUGE |-> "g", TIMER |-> "ms"]

\* the prefixes space() is called with, with and without a trailing '.'
Prefixes == {"api", "v1", "a."}
\* client.space(p1).space(p2)...: the prefixes of a chain of space() calls
\* the keys and the arguments after the key in calls made on a proxy
ProxyKeys == {"latency"}
ProxyArgLists == {<<>>, <<Num(42)>>}
Paths == UNION {[1..n -> Prefixes] : n \in 1..MaxDepth}

VARIABLES
    _host,       \* this._host
    _port,       \* this._port
    _client,     \* this._client: Null or the number of the live socket
    sending,     \* this.sending
    created,     \* number of sockets made by udp.createSocket so far
    ops,         \* the count/gauge/timer calls made so far, in call order:
                 \* the socket each was sent on, how its send completed
                 \* (done) and how the promise it returned settled
    sent,        \* number of datagrams handed to socket.send so far
    scheduled,   \* number of setTimeout calls made by close()
    fired,       \* number of those timeouts that have fired
    timerSock,   \* for each timeout not yet fired, in the order they were
                 \* set, the socket that was live when close() set it
    issuedSince,    \* socket.send calls on the live socket since it was made
    completedSince, \* send callbacks run since the live socket was made
    last         \* the step that led to this state: the call and its
                 \* arguments, the state before it, and the datagram it
                 \* handed to socket.send

vars == <<_host, _port, _client, sending, created, ops, sent, scheduled,
          fired, timerSock, issuedSince, completedSince, last>>

\* ----------------------------------------------------------- pure helpers
Digit(d) ==
    CASE d = 0 -> "0" [] d = 1 -> "1" [] d = 2 -> "2" [] d = 3 -> "3"
      [] d = 4 -> "4" [] d = 5 -> "5" [] d = 6 -> "6" [] d = 7 -> "7"
      [] d = 8 -> "8" [] d = 9 -> "9"

RECURSIVE NatToString(_)
NatToString(n) ==
    IF n < 10 THEN Digit(n) ELSE NatToString(n \div 10) \o Digit(n % 10)

\* the string a template literal makes of a value
ToString(v) ==
    IF v.t = "undefined" THEN "undefined"
    ELSE IF v.n < 0 THEN "-" \o NatToString(0 - v.n)
    ELSE NatToString(v.n)

\* `${key}:${value}|${type}`
\* (fault variant: the ':' left out)
PacketNoSeparator(key, value, type) == key \o ToString(value) \o "|" \o type
\* the literal as written
Packet(key, value, type) == key \o ":" \o ToString(value) \o "|" \o type

\* the default parameter value=1 of count(key, value=1)
\* (fault variant: no default)
CountValueNoDefault(argv) == IF argv = <<>> THEN Undefined ELSE argv[1]
CountValue(argv) == IF argv = <<>> THEN Num(1) ELSE argv[1]
\* gauge(key, value) and timer(key, value) have no default
PlainValue(argv) == IF argv = <<>> THEN Undefined ELSE argv[1]

Outstanding == {i \in 1..Len(ops) : ops[i].done = "no"}

Pre == [client |-> _client, sending |-> sending, scheduled |-> scheduled,
        sent |-> sent, outstanding |-> Cardinality(Outstanding),
        pending |-> Len(timerSock)]

NoDatagram == [body |-> "", port |-> 0, host |-> "", sock |-> Null]

\* path and prefix: the chain of space() calls that made the proxy a call
\* was made on, and the prefix that proxy holds (none for the client);
\* armed: for a timeout that fired, the socket that was live when it was set
Step(op) == [op |-> op, id |-> 0, force |-> FALSE, threw |-> FALSE,
             key |-> "", argv |-> <<>>, datagram |-> NoDatagram, pre |-> Pre,
             path |-> <<>>, prefix |-> "", armed |-> Null]

\* ------------------------------------------------------------------- Init
\* constructor(host, port=8125)
Init ==
    /\ _host \in Hosts
    /\ _port \in Ports
    /\ _client = Null
    /\ sending = 0
    /\ created = 0
    /\ ops = <<>>
    /\ sent = 0
    /\ scheduled = 0
    /\ fired = 0
    /\ timerSock = <<>>
    /\ issuedSince = 0
    /\ completedSince = 0
    /\ last = Step("new")

\* ---------------------------------------------------------------- _send
\* get client(): the value of this.sending after the getter has run, given
\* its value s before
\* (fault variants: the getter leaves the counter alone; the getter resets
\* it on every call)
GetterSendingNoReset(c, s) == s
GetterSendingAlwaysReset(c, s) == 0
GetterSending(c, s) == IF c = Null THEN 0 ELSE s

\* _stat / _send: this.sending++ runs first, then the promise executor
\* evaluates this.client (the getter) and calls send on the socket
Send(key, value, type, step) ==
    /\ Len(ops) < MaxOps
    /\ LET s1 == sending + 1
           fresh == _client = Null
           sock == IF fresh THEN created + 1 ELSE _client
       IN /\ sending' = GetterSending(_client, s1)
          /\ _client' = sock
          /\ created' = IF fresh THEN created + 1 ELSE created
          /\ issuedSince' = IF fresh THEN 1 ELSE issuedSince + 1
          /\ completedSince' = IF fresh THEN 0 ELSE completedSince
          /\ sent' = sent + 1
          /\ ops' = Append(ops, [sock |-> sock, done |-> "no",
                                 status |-> "pending", result |-> "none"])
          /\ last' = [step EXCEPT !.id = Len(ops) + 1,
                          !.datagram = [body |-> Packet(key, value, type),
                                        port |-> _port, host |-> _host,
                                        sock |-> sock]]
    /\ UNCHANGED <<_host, _port, scheduled, fired, timerSock>>

Stat(op, key, value, type, argv) ==
    Send(key, value, type, [Step(op) EXCEPT !.key = key, !.argv = argv])

count(key, argv) == Stat("count", key, CountValue(argv), TYPES.COUNTER, argv)
gauge(key, argv) == Stat("gauge", key, PlainValue(argv), TYPES.GAUGE, argv)
timer(key, argv) == Stat("timer", key, PlainValue(argv), TYPES.TIMER, argv)

\* the callback given to socket.send: this.sending-- in both branches
\* (fault variant: the decrement only in the success branch)
CallbackSendingSkipOnError(s, error) == IF error THEN s ELSE s - 1
CallbackSending(s, error) == s - 1

\* how the promise returned by count/gauge/timer settles: reject(error)
\* makes the awaits in _stat and count throw, resolve() lets count return this
\* (fault variant: the error swallowed)
SettleAlwaysThis(error) == [status |-> "fulfilled", result |-> This]
Settle(error) ==
    IF error THEN [status |-> "rejected", result |-> "error"]
    ELSE [status |-> "fulfilled", result |-> This]

\* the send of call i completes; error says whether the callback got an error
\* (fault variant: no callback for a send whose socket has been closed)
CallbackCancelledByClose(i, error) ==
    /\ i \in Outstanding
    /\ ops[i].sock = _client
    /\ sending' = CallbackSending(sending, error)
    /\ completedSince' = completedSince + 1
    /\ ops' = [ops EXCEPT ![i] = [sock |-> ops[i].sock,
                                   done |-> IF error THEN "err" ELSE "ok",
                                   status |-> Settle(error).status,
                                   result |-> Settle(error).result]]
    /\ last' = [Step(IF error THEN "error" ELSE "success") EXCEPT !.id = i]
    /\ UNCHANGED <<_host, _port, _client, created, sent, scheduled, fired,
                   timerSock, issuedSince>>
Callback(i, error) ==
    /\ i \in Outstanding
    /\ sending' = CallbackSending(sending, error)
    /\ completedSince' = completedSince + 1
    /\ ops' = [ops EXCEPT ![i] = [sock |-> ops[i].sock,
                                   done |-> IF error THEN "err" ELSE "ok",
                                   status |-> Settle(error).status,
                                   result |-> Settle(error).result]]
    /\ last' = [Step(IF error THEN "error" ELSE "success") EXCEPT !.id = i]
    /\ UNCHANGED <<_host, _port, _client, created, sent, scheduled, fired,
                   timerSock, issuedSince>>

\* ----------------------------------------------------------------- close
\* which branch close(force) takes: "none" (no socket), "timeout" or "close"
\* (fault variants: the null test left out; force not consulted)
CloseBranchNoNullCheck(c, s, force) ==
    IF s > 0 /\ ~force THEN "timeout" ELSE "close"
CloseBranchIgnoreForce(c, s, force) ==
    IF c # Null THEN (IF s > 0 THEN "timeout" ELSE "close") ELSE "none"
CloseBranch(c, s, force) ==
    IF c # Null THEN (IF s > 0 /\ ~force THEN "timeout" ELSE "close")
    ELSE "none"

\* the body of close(force); this._client.close() on null would throw
CloseBody(op, force, pending) ==
    LET b == CloseBranch(_client, sending, force)
    IN /\ b = "timeout" => scheduled < MaxTimers
       /\ scheduled' = IF b = "timeout" THEN scheduled + 1 ELSE scheduled
       /\ timerSock' = IF b = "timeout" THEN Append(pending, _client)
                                         ELSE pending
       /\ _client' = IF b = "close" THEN Null ELSE _client
       /\ last' = [Step(op) EXCEPT !.force = force,
                       !.threw = (b = "close" /\ _client = Null),
                       !.armed = IF op = "timeout" THEN Head(timerSock)
                                                   ELSE Null]
       /\ UNCHANGED <<_host, _port, sending, created, ops, sent, issuedSince,
                      completedSince>>

close(force) ==
    /\ CloseBody("close", force, timerSock)
    /\ UNCHANGED fired

\* setTimeout(()=>{this.close(true)}, 10000) fires
\* (fault variant: the callback calls close() without force)
TimeoutUnforced ==
    /\ fired < scheduled
    /\ fired' = fired + 1
    /\ CloseBody("timeout", FALSE, Tail(timerSock))
Timeout ==
    /\ fired < scheduled
    /\ fired' = fired + 1
    /\ CloseBody("timeout", TRUE, Tail(timerSock))

\* ----------------------------------------------------------- StatsDProxy
\* String.prototype.endsWith
endsWith(str, suffix) ==
    /\ Len(str) >= Len(suffix)
    /\ SubSeq(str, Len(str) - Len(suffix) + 1, Len(str)) = suffix

\* the prefix the StatsDProxy constructor stores
\* (fault variants: the '.' never appended; the '.' always appended)
NormalizeNever(prefix) == prefix
NormalizeAlways(prefix) == prefix \o "."
Normalize(prefix) == IF ~endsWith(prefix, ".") THEN prefix \o "." ELSE prefix

\* new StatsDProxy(statsd, prefix)
StatsDProxy(statsd, prefix) == [parent |-> statsd, prefix |-> Normalize(prefix)]

\* StatsD.space(prefix)
ClientSpace(prefix) == StatsDProxy(This, prefix)

\* StatsDProxy.space(prefix)
\* (fault variant: the proxy's own prefix not passed on)
ProxySpaceDropsOwn(proxy, prefix) == StatsDProxy(proxy.parent, prefix)
ProxySpace(proxy, prefix) == StatsDProxy(proxy.parent, proxy.prefix \o prefix)

\* client.space(path[1]).space(path[2])...
RECURSIVE Chain(_)
Chain(path) ==
    IF Len(path) = 1 THEN ClientSpace(path[1])
    ELSE ProxySpace(Chain(SubSeq(path, 1, Len(path) - 1)), path[Len(path)])

\* the methods the two classes define
StatsDMethods == {"space", "count", "gauge", "timer", "close"}
\* (fault variant: timer missing from the proxy)
StatsDProxyMethodsNoTimer == {"space", "count", "gauge"}
StatsDProxyMethods == {"space", "count", "gauge", "timer"}

\* a step that changes no field of the client
Pure(step) ==
    /\ last' = step
    /\ UNCHANGED <<_host, _port, _client, sending, created, ops, sent,
                   scheduled, fired, timerSock, issuedSince, completedSince>>

\* calling a method the object does not have: TypeError, nothing else
NotAFunction(op, path) ==
    Pure([Step(op) EXCEPT !.threw = TRUE, !.path = path,
                          !.prefix = Chain(path).prefix])

\* client.space(p) for a path of one prefix, proxy.space(p) on the proxy made
\* by the rest of the path otherwise; the new proxy is the result
space(path) ==
    IF Len(path) = 1
    THEN Pure([Step("space") EXCEPT !.path = path,
                                    !.prefix = Chain(path).prefix])
    ELSE IF "space" \in StatsDProxyMethods
    THEN Pure([Step("proxy.space") EXCEPT !.path = path,
                                          !.prefix = Chain(path).prefix])
    ELSE NotAFunction("proxy.space", SubSeq(path, 1, Len(path) - 1))

\* proxy.count / proxy.gauge / proxy.timer: the value (count: with its own
\* default 1) is passed on to the same method of the parent with the key
\* this.prefix + key
ProxyStat(path, m, key, argv) ==
    LET proxy == Chain(path)
        step == [Step("proxy." \o m) EXCEPT !.key = key, !.argv = argv,
                     !.path = path, !.prefix = proxy.prefix]
    IN CASE m = "count" ->
              Send(proxy.prefix \o key, CountValue(<<CountValue(argv)>>),
                   TYPES.COUNTER, step)
         [] m = "gauge" ->
              Send(proxy.prefix \o key, PlainValue(<<PlainValue(argv)>>),
                   TYPES.GAUGE, step)
         [] m = "timer" ->
              Send(proxy.prefix \o key, PlainValue(<<PlainValue(argv)>>),
                   TYPES.TIMER, step)

\* a call of method m of the public surface on the proxy made by path
ProxyCall(path, m, key, argv) ==
    IF m \in StatsDProxyMethods
    THEN ProxyStat(path, m, key, argv)
    ELSE NotAFunction("proxy." \o m, path)

\* ------------------------------------------------------------------- Next
Next ==
    \/ \E k \in Keys, a \in ArgLists : count(k, a)
    \/ \E k \in Keys, a \in ArgLists : gauge(k, a)
    \/ \E k \in Keys, a \in ArgLists : timer(k, a)
    \/ \E i \in 1..MaxOps, e \in BOOLEAN : Callback(i, e)
    \/ \E f \in BOOLEAN : close(f)
    \/ Timeout

Spec == Init /\ [][Next]_vars

\* the client used through proxies only: chains of space() calls, the calls
\* of the public surface on the proxies they make, and the send callbacks
ProxyNext ==
    \/ \E p \in Paths : space(p)
    \/ \E p \in Paths, m \in StatsDMethods \ {"space"}, k \in ProxyKeys,
          a \in ProxyArgLists : ProxyCall(p, m, k, a)
    \/ \E i \in 1..MaxOps, e \in BOOLEAN : Callback(i, e)

ProxySpec == Init /\ [][ProxyNext]_vars

\* the client's own calls together with chains of space() calls
\* (client.space(p) and client.space(p).space(q))
SpacePaths == {p \in Paths : Len(p) <= 2}

SpaceNext ==
    \/ Next
    \/ \E p \in SpacePaths : space(p)

SpaceSpec == Init /\ [][SpaceNext]_vars

\* timers fire: Node runs a due timeout once the event loop is idle
LiveSpec == Spec /\ WF_vars(Timeout)

\* every send handed to the socket gets its callback: the socket calls back
\* once the datagram has been sent or has failed
SendSpec ==
    /\ Spec
    /\ \A i \in 1..MaxOps : WF_vars(\E e \in BOOLEAN : Callback(i, e))

\* =================================================================== claims
IsStat(l) == l.op \in {"count", "gauge", "timer"}
IsCallback(l) == l.op \in {"success", "error"}

\* C1: in every reachable state the in-flight counter `sending` is >= 0.
C1_SendingNeverNegative == sending >= 0

\* C2: in a state where every send issued so far has completed (success or
\* error), the in-flight counter is 0.
C2_ZeroWhenAllCompleted == Outstanding = {} => sending = 0

\* C3: while a socket exists, the in-flight counter equals the number of
\* sends issued since that socket was created minus the number of sends
\* completed since then.
C3_SendingIsIssuedMinusCompleted ==
    _client # Null => sending = issuedSince - completedSince

\* C4: close(false) called on a client with a socket and at least one send
\* that has not completed leaves the socket in place and schedules the
\* forced close.
C4_CloseWaitsForOutstanding ==
    (last.op = "close" /\ ~last.force /\ last.pre.client # Null
        /\ last.pre.outstanding > 0)
    => (_client = last.pre.client /\ scheduled = last.pre.scheduled + 1)

\* C5: every timeout scheduled by close(false) eventually fires, and right
\* after it fires the socket is absent, whatever the in-flight counter and
\* the number of outstanding sends are.
C5_GraceTimerDestroys ==
    /\ \A n \in 1..MaxTimers : (scheduled >= n) ~> (fired >= n)
    /\ [](last.op = "timeout" => _client = Null)

C5_Witness ==
    /\ last.op = "timeout"
    /\ last.pre.client # Null
    /\ last.pre.sending > 0
    /\ last.pre.outstanding > 0
    /\ _client = Null
    /\ sending > 0

\* C6: right after close(true) returns the socket is absent and no timeout
\* has been scheduled by the call, whatever the in-flight counter and the
\* number of outstanding sends are.
C6_ForceCloseIsSynchronous ==
    (last.op = "close" /\ last.force)
    => (_client = Null /\ scheduled = last.pre.scheduled)

C6_Witness ==
    /\ last.op = "close"
    /\ last.force
    /\ last.pre.client # Null
    /\ last.pre.sending > 0
    /\ last.pre.outstanding > 0
    /\ _client = Null

\* C7: close (forced or not) called while no socket exists changes nothing:
\* the socket stays absent, the counter keeps its value, no timeout is
\* scheduled and nothing is thrown.
C7_CloseWithoutSocketIsNoop ==
    (last.op = "close" /\ last.pre.client = Null)
    => /\ _client = Null
       /\ sending = last.pre.sending
       /\ scheduled = last.pre.scheduled
       /\ ~last.threw

\* close(false) on a client whose socket was destroyed with the counter > 0
C7_Witness ==
    /\ last.op = "close"
    /\ ~last.force
    /\ last.pre.client = Null
    /\ last.pre.sending > 0
    /\ created > 0
    /\ _client = Null

\* the text of the values the calls are made with, written out
ValueText(v) ==
    CASE v = Num(42) -> "42"
      [] v = Num(0 - 3) -> "-3"
      [] v = Num(1) -> "1"

TypeText(op) ==
    CASE op = "count" -> "c" [] op = "gauge" -> "g" [] op = "timer" -> "ms"

\* C8: each count(k, v), gauge(k, v) or timer(k, v) hands exactly one
\* datagram to the socket, addressed to the client's port and host, with
\* body k:v|c, k:v|g or k:v|ms; count(k) uses v = 1.
C8_OneDatagramPerCall ==
    IsStat(last) =>
        /\ sent = last.pre.sent + 1
        /\ last.datagram.sock = _client
        /\ _client # Null
        /\ last.datagram.port = _port
        /\ last.datagram.host = _host
        /\ (last.argv # <<>> \/ last.op = "count") =>
              last.datagram.body =
                  last.key \o ":"
                  \o ValueText(IF last.argv = <<>> THEN Num(1)
                               ELSE last.argv[1])
                  \o "|" \o TypeText(last.op)

\* client for 127.0.0.1, default port; count("requests")
C8_Witness ==
    /\ last.op = "count"
    /\ last.key = "requests"
    /\ last.argv = <<>>
    /\ last.datagram = [body |-> "requests:1|c", port |-> 8125,
                        host |-> "127.0.0.1", sock |-> _client]
    /\ sent = 2

\* C9 (as stated): the promise of every call whose send has completed,
\* successfully or not, is fulfilled with the client itself.
C9_AlwaysResolvesWithClient ==
    \A i \in 1..Len(ops) :
        ops[i].done # "no" =>
            (ops[i].status = "fulfilled" /\ ops[i].result = This)

\* C9 (amended): the promise of a call is pending until its send completes;
\* it is then fulfilled with the client itself if the send succeeded and
\* rejected with the send's error if it failed; a call can be issued while
\* earlier ones are still outstanding.
C9_SettlesWithSendOutcome ==
    /\ \A i \in 1..Len(ops) :
          /\ ops[i].done = "no" =>
                (ops[i].status = "pending" /\ ops[i].result = "none")
          /\ ops[i].done = "ok" =>
                (ops[i].status = "fulfilled" /\ ops[i].result = This)
          /\ ops[i].done = "err" =>
                (ops[i].status = "rejected" /\ ops[i].result = "error")
    /\ (IsStat(last) /\ last.pre.outstanding > 0) =>
          Cardinality(Outstanding) = last.pre.outstanding + 1

C9_Witness ==
    /\ Len(ops) >= 3
    /\ ops[1].status = "pending"
    /\ ops[2].status = "rejected"
    /\ ops[3].status = "fulfilled"
    /\ ops[3].result = This

Errors == {i \in 1..Len(ops) : ops[i].done = "err"}

\* C10: a send callback with an error decrements the counter by one, as a
\* successful one does, leaves the socket alone and leaves every other call
\* as it was; after send errors a further call is issued as usual, and
\* close still removes the socket, at once or by the timeout it schedules.
C10_ErrorIsLocal ==
    /\ [][IsCallback(last') => sending' = sending - 1]_vars
    /\ [][last'.op = "error" =>
            /\ _client' = _client
            /\ scheduled' = scheduled
            /\ fired' = fired
            /\ Len(ops') = Len(ops)
            /\ \A j \in 1..Len(ops) : j # last'.id => ops'[j] = ops[j]]_vars
    /\ []((Errors # {} /\ IsStat(last)) =>
            /\ ops[last.id].status = "pending"
            /\ sent = last.pre.sent + 1
            /\ _client # Null
            /\ last.datagram.sock = _client)
    /\ []((Errors # {} /\ last.op \in {"close", "timeout"}) =>
            \/ _client = Null
            \/ (~last.force /\ fired < scheduled))

C10_Witness ==
    /\ last.op = "error"
    /\ last.pre.outstanding >= 2
    /\ last.pre.sending > 0
    /\ sending = last.pre.sending - 1
    /\ _client # Null

\* ------------------------------------------------------ claims on proxies
IsProxyStat(l) == l.op \in {"proxy.count", "proxy.gauge", "proxy.timer"}

\* what follows the key in the datagram of a call made on a proxy
ProxyTail(l) ==
    ":" \o (IF l.argv # <<>> THEN ValueText(l.argv[1])
            ELSE IF l.op = "proxy.count" THEN "1" ELSE "undefined")
    \o "|" \o (CASE l.op = "proxy.count" -> "c"
                 [] l.op = "proxy.gauge" -> "g"
                 [] l.op = "proxy.timer" -> "ms")

\* C11: space(p).count(k, v), and likewise gauge and timer, sends a datagram
\* whose key is p.k when p does not end with '.', and pk when it does.
C11_PrefixNormalizedOnce ==
    (IsProxyStat(last) /\ Len(last.path) = 1) =>
        LET p == last.path[1]
        IN last.datagram.body =
              (IF endsWith(p, ".") THEN p \o last.key
                                   ELSE p \o "." \o last.key)
              \o ProxyTail(last)

\* client.space("api").timer("latency", 42)
C11_Witness ==
    /\ last.op = "proxy.timer"
    /\ last.path = <<"api">>
    /\ last.key = "latency"
    /\ last.datagram.body = "api.latency:42|ms"

\* the prefixes of a path joined with '.'
RECURSIVE Join(_)
Join(path) ==
    IF Len(path) = 1 THEN path[1]
    ELSE Join(SubSeq(path, 1, Len(path) - 1)) \o "." \o path[Len(path)]

NoTrailingSeparator(path) ==
    \A i \in 1..Len(path) : ~endsWith(path[i], ".")

\* C12: for prefixes a, b, ... without a trailing '.', the datagram key of
\* space(a).space(b)...count(c, v) is a.b.....c, the key that
\* space("a.b....").count(c, v) sends, at every depth of nesting.
C12_NestingAssociative ==
    (IsProxyStat(last) /\ Len(last.path) >= 2
        /\ NoTrailingSeparator(last.path)) =>
        /\ last.datagram.body =
              Join(last.path) \o "." \o last.key \o ProxyTail(last)
        /\ last.prefix = Chain(<<Join(last.path)>>).prefix

C12_Witness ==
    /\ last.op = "proxy.count"
    /\ last.path = <<"api", "v1">>
    /\ last.key = "latency"
    /\ last.argv = <<>>
    /\ last.datagram.body = "api.v1.latency:1|c"

IsOnProxy(l) ==
    l.op \in {"proxy.space", "proxy.count", "proxy.gauge", "proxy.timer",
              "proxy.close"}

\* C13 (as stated): count, gauge, timer, space and close can all be called
\* on every proxy, as on the client.
C13_ProxyHasWholeSurface == IsOnProxy(last) => ~last.threw

\* C13 (amended): count, gauge, timer and space can be called on the client
\* and on every proxy at any depth; close is a method of the client only,
\* and calling it on a proxy throws and leaves the client as it was.
C13_ProxySurfaceWithoutClose ==
    /\ {"count", "gauge", "timer", "space", "close"} \subseteq StatsDMethods
    /\ (IsOnProxy(last) /\ last.op # "proxy.close") => ~last.threw
    /\ last.op = "space" => ~last.threw
    /\ IsProxyStat(last) => (sent = last.pre.sent + 1 /\ _client # Null)
    /\ last.op = "proxy.close" =>
          /\ last.threw
          /\ _client = last.pre.client
          /\ sending = last.pre.sending
          /\ scheduled = last.pre.scheduled

C13_Witness ==
    /\ last.op = "proxy.close"
    /\ Len(last.path) = 2
    /\ last.threw
    /\ _client # Null

\* ------------------------------------------------- claims on the client
\* C14: right after a count/gauge/timer issued on a client without a socket
\* the in-flight counter is 1.
C14_FirstSendCountsOne ==
    (IsStat(last) /\ last.pre.client = Null) => sending = 1

\* C15: a close(false) repeated while a timeout of an earlier close(false)
\* is pending leaves the socket, the counter and the scheduled forced
\* closes as they were.
C15_RepeatedCloseChangesNothing ==
    (last.op = "close" /\ ~last.force /\ last.pre.pending > 0) =>
        /\ _client = last.pre.client
        /\ sending = last.pre.sending
        /\ scheduled = last.pre.scheduled

C17_SocketCreatedOnlyBySend ==
    /\ last.op = "new" => (_client = Null /\ created = 0)
    /\ last.op \in {"space", "proxy.space", "close", "timeout"} =>
          /\ _client \in {Null, last.pre.client}
          /\ sending = last.pre.sending
          /\ sent = last.pre.sent
    /\ last.op \in {"space", "proxy.space"} => _client = last.pre.client
    /\ (IsStat(last) /\ last.pre.client = Null) =>
          /\ _client = created
          /\ _client # Null
          /\ last.datagram.sock = _client
          /\ \A i \in 1..(last.id - 1) : ops[i].sock # _client
    /\ (IsStat(last) /\ last.pre.client # Null) =>
          /\ _client = last.pre.client
          /\ last.datagram.sock = _client
          /\ sending = last.pre.sending + 1

\* a send after a close that destroyed the first socket
C17_Witness ==
    /\ IsStat(last)
    /\ last.pre.client = Null
    /\ created = 2
    /\ _client = 2

\* C18: a timeout set by close(false) destroys only the socket that was live
\* when it was set; a socket created later is left in place when it fires.
C18_TimeoutSparesNewSocket ==
    (last.op = "timeout" /\ last.pre.client # Null
        /\ last.armed # last.pre.client) => _client = last.pre.client

====
